---- MODULE Spec2Model ----
(***************************************************************************)
(* A model of ESP32_AnimatedGIF::Impl (src/src/ESP32_AnimatedGIF.cpp).     *)
(* The decoder object is the record impl, one field per member of Impl;   *)
(* every public method is one action, built from operators that follow    *)
(* the private methods statement by statement.  Streams are byte           *)
(* sequences; position p of the C++ code is element p + 1 here.            *)
(***************************************************************************)
EXTENDS Integers, Sequences, FiniteSets, TLC

\* ------------------------------------------------------------ integers

\* Widths of uint8_t and uint16_t.  The uint32_t positions, lengths and
\* durations of the streams below stay far from 2^32; the one uint32_t
\* expression that wraps, _dataLength - 1 at length 0, is BelowLengthMinusOne.
U8  == 2 ^ 8
U16 == 2 ^ 16

\* Bit k of x, and the C++ expression (x >> k) & 0x07.
Bit(x, k) == (x \div (2 ^ k)) % 2
Bits3(x, k) == (x \div (2 ^ k)) % 8

\* block[lo] | (block[hi] << 8)
LE16(lo, hi) == lo + 256 * hi

\* ------------------------------------------------------------- limits

ESP32_ANIMATEDGIF_MAX_WIDTH  == 800
ESP32_ANIMATEDGIF_MAX_HEIGHT == 600

\* ------------------------------------------------------ error and format

SUCCESS           == "SUCCESS"
DECODE_ERROR      == "DECODE_ERROR"
FILE_TOO_WIDE     == "FILE_TOO_WIDE"
INVALID_PARAMETER == "INVALID_PARAMETER"
FILE_NOT_FOUND    == "FILE_NOT_FOUND"
EARLY_EOF         == "EARLY_EOF"
EMPTY_FRAME       == "EMPTY_FRAME"
BAD_FILE_FORMAT   == "BAD_FILE_FORMAT"
OUT_OF_MEMORY     == "OUT_OF_MEMORY"

PixelFormat ==
  {"RGB565_LE", "RGB565_BE", "RGB888", "ARGB8888", "GRAYSCALE_8BIT", "MONOCHROME_1BIT"}

\* ------------------------------------------------------------- memory

\* A pointer member: either nullptr or an owned block of bytes.
NULL == [alloc |-> FALSE, bytes |-> << >>]

Zeros(n) == [i \in 1..n |-> 0]

\* ESP32_GIF_Utils::allocateMemory: nullptr for size 0 or when malloc fails
\* (ok = FALSE), otherwise a zero-filled block.
allocateMemory(size, ok) ==
  IF size = 0 \/ ~ok THEN NULL ELSE [alloc |-> TRUE, bytes |-> Zeros(size)]

\* Outcomes of the allocations one call makes: the raw-data copy, the global
\* and local color tables, the two canvas buffers.
AllOK == [data |-> TRUE, gct |-> TRUE, lct |-> TRUE, fb |-> TRUE, pf |-> TRUE]

\* ------------------------------------------------------------ streams

\* "GIF89a"
Sig89 == <<71, 73, 70, 56, 57, 97>>
\* "GIF87a"
Sig87 == <<71, 73, 70, 56, 55, 97>>

\* The 13-byte header: signature, width and height LE16, packed flags,
\* background index, aspect ratio.
Header(w, h, flags, bg) ==
  Sig89 \o <<w % 256, w \div 256, h % 256, h \div 256, flags, bg, 0>>

\* A Graphic Control Extension: introducer 0x21, label 0xF9, five bytes, and
\* the 0x00 that ends the chain.  GIF89a puts the block size 4 in b0, the
\* packed flags in b1, the delay in b2 b3 and the transparent index in b4.
GCE(b0, b1, b2, b3, b4) == <<33, 249, b0, b1, b2, b3, b4, 0>>

\* An Image Descriptor: 0x2C, x, y, width, height (LE16 each), packed flags.
ImageDescriptor(x, y, w, h, flags) ==
  <<44, x % 256, x \div 256, y % 256, y \div 256,
    w % 256, w \div 256, h % 256, h \div 256, flags>>

\* Image data: LZW minimum code size 2, one sub-block of one byte, terminator.
ImageData == <<2, 1, 76, 0>>

\* The Trailer.
Trailer == <<59>>

\* Color tables of four entries (flag bits 0-2 = 1), as RGB triplets.
TableG == <<1, 2, 3,  40, 50, 60,  70, 80, 90,  100, 110, 120>>
TableL == <<129, 255, 255,  0, 0, 0,  255, 0, 0,  10, 20, 30>>
\* A color table of two entries (flag bits 0-2 = 0).
TableS == <<200, 100, 50,  5, 6, 7>>

\* 1: three bytes that are no signature and no full header.
StreamShort == <<88, 89, 90>>
\* 2: a full header whose signature is "GIF88a".
StreamBadSig == <<71, 73, 70, 56, 56, 97, 2, 0, 2, 0, 0, 0, 0>> \o Trailer
\* 3, 4: valid signatures, canvas 801 x 2 and 2 x 601.
StreamTooWide == Header(801, 2, 0, 0) \o Trailer
StreamTooHigh == Header(2, 601, 129, 0) \o TableG \o Trailer
\* 5: no global table; frame 0 has no local table, frame 1 has one.
StreamLateLct ==
  Header(2, 2, 0, 0)
    \o ImageDescriptor(0, 0, 2, 2, 0) \o ImageData
    \o ImageDescriptor(0, 0, 2, 2, 129) \o TableL \o ImageData
    \o Trailer
\* 6: global table, background index 1, four frames with local tables.  The
\* bytes after the label 0xF9 are 12, 4, 8: the decoder reads disposal 3, 1, 2.
StreamDisposal ==
  Header(2, 2, 129, 1) \o TableG
    \o GCE(12, 0, 0, 0, 0) \o ImageDescriptor(0, 0, 2, 2, 129) \o TableL \o ImageData
    \o GCE(4, 8, 3, 0, 0) \o ImageDescriptor(0, 1, 1, 1, 129) \o TableL \o ImageData
    \o GCE(8, 5, 0, 0, 0) \o ImageDescriptor(0, 0, 2, 1, 129) \o TableL \o ImageData
    \o ImageDescriptor(1, 1, 1, 1, 129) \o TableL \o ImageData
    \o Trailer
\* 7: global table of two entries, one frame without a local table.
StreamGlobalOnly ==
  Header(1, 1, 128, 0) \o TableS
    \o GCE(4, 0, 1, 0, 0) \o ImageDescriptor(0, 0, 1, 1, 0) \o ImageData
    \o Trailer
\* 8: one frame whose sub-block chain is cut short.
StreamTruncated ==
  Header(2, 2, 0, 0) \o ImageDescriptor(0, 0, 1, 1, 0) \o <<2, 5, 1>>

\* 9: global table, a whole first frame, and a second frame whose sub-block
\* chain is cut short.
StreamSecondCut ==
  Header(2, 2, 128, 0) \o TableS
    \o ImageDescriptor(0, 0, 2, 2, 0) \o ImageData
    \o ImageDescriptor(0, 0, 1, 1, 0) \o <<2, 5, 1>>

Streams ==
  <<StreamShort, StreamBadSig, StreamTooWide, StreamTooHigh,
    StreamLateLct, StreamDisposal, StreamGlobalOnly, StreamTruncated,
    StreamSecondCut>>

\* The buffers loadFromMemory is given and the streams a reader serves.
MemoryStreams == 1..Len(Streams)
ReaderStreams == {3, 4, 5}

\* The formats begin is called with.
Formats == {"RGB565_LE", "RGB888", "MONOCHROME_1BIT"}

\* A DataReader over stream r: copies length bytes from position, and fails
\* when the range does not lie inside the stream.
Reader(r, length, position) ==
  IF position + length <= Len(Streams[r])
  THEN [ok |-> TRUE, bytes |-> SubSeq(Streams[r], position + 1, position + length)]
  ELSE [ok |-> FALSE, bytes |-> << >>]

\* --------------------------------------------------------- the object

\* The number of unreferenced, never freed blocks the model counts up to.
MaxLost == 2

\* Impl::Impl().  A callback is a function pointer, 0 for nullptr; invoked is
\* the sequence of calls the object has made to its callbacks; lost is the
\* number of blocks the object allocated, references no more and never freed.
NewImpl ==
  [ data |-> NULL, dataLength |-> 0, dataPosition |-> 0, reader |-> 0,
    currentFrame |-> 0, totalFrames |-> 0, loop |-> TRUE,
    pixelFormat |-> "RGB565_LE", lastError |-> SUCCESS,
    canvasWidth |-> 0, canvasHeight |-> 0,
    frameX |-> 0, frameY |-> 0, frameWidth |-> 0, frameHeight |-> 0,
    frameDelay |-> 0, disposalMethod |-> 0, imageFlags |-> 0,
    hasTransparency |-> FALSE, transparentIndex |-> 0, backgroundColor |-> 0,
    globalColorTable |-> NULL, localColorTable |-> NULL,
    globalColorTableSize |-> 0, localColorTableSize |-> 0,
    frameBuffer |-> NULL, previousFrame |-> NULL, totalDuration |-> 0,
    frameCallback |-> 0, pixelCallback |-> 0, callbackData |-> 0,
    invoked |-> << >>, lost |-> 0 ]

\* A pointer is overwritten: when it held a block, that block is neither
\* referenced nor freed from then on.  lost counts such blocks, up to MaxLost.
Overwritten(pointer, lost) ==
  IF pointer.alloc /\ lost < MaxLost THEN lost + 1 ELSE lost

resetFrameState(I) ==
  [I EXCEPT !.frameX = 0, !.frameY = 0, !.frameWidth = 0, !.frameHeight = 0,
            !.frameDelay = 0, !.disposalMethod = 0, !.imageFlags = 0,
            !.hasTransparency = FALSE, !.transparentIndex = 0]

resetState(I) ==
  [resetFrameState(I) EXCEPT
     !.canvasWidth = 0, !.canvasHeight = 0, !.currentFrame = 0,
     !.totalFrames = 0, !.totalDuration = 0,
     !.globalColorTable = NULL, !.localColorTable = NULL,
     !.globalColorTableSize = 0, !.localColorTableSize = 0,
     !.frameBuffer = NULL, !.previousFrame = NULL,
     !.lost = Overwritten(I.previousFrame,
                Overwritten(I.frameBuffer,
                  Overwritten(I.localColorTable,
                    Overwritten(I.globalColorTable, I.lost))))]

\* Frees the five blocks and sets their pointers to nullptr, then
\* resetState; the reader and the data length stay as they are.
cleanup(I) ==
  resetState([I EXCEPT !.data = NULL,
                       !.globalColorTable = NULL, !.localColorTable = NULL,
                       !.frameBuffer = NULL, !.previousFrame = NULL])

\* A bounds test that also refuses a range ending at the last byte.
readData_Exclusive(I, length, position) ==
  IF I.reader # 0 THEN Reader(I.reader, length, position)
  ELSE IF I.data.alloc THEN
    IF position + length >= I.dataLength
    THEN [ok |-> FALSE, bytes |-> << >>]
    ELSE [ok |-> TRUE, bytes |-> SubSeq(I.data.bytes, position + 1, position + length)]
  ELSE [ok |-> FALSE, bytes |-> << >>]

readData(I, length, position) ==
  IF I.reader # 0 THEN Reader(I.reader, length, position)
  ELSE IF I.data.alloc THEN
    IF position + length > I.dataLength
    THEN [ok |-> FALSE, bytes |-> << >>]
    ELSE [ok |-> TRUE, bytes |-> SubSeq(I.data.bytes, position + 1, position + length)]
  ELSE [ok |-> FALSE, bytes |-> << >>]

\* ------------------------------------------------------------- canvas

\* The size computed in allocateFrameBuffer, resetFrameBuffer and
\* applyDisposal: width * height times 2, 3, 4, or 1 for the other formats.
bufferSize(I) ==
  I.canvasWidth * I.canvasHeight *
    ( CASE I.pixelFormat \in {"RGB565_LE", "RGB565_BE"} -> 2
        [] I.pixelFormat = "RGB888" -> 3
        [] I.pixelFormat = "ARGB8888" -> 4
        [] OTHER -> 1 )

\* Both old blocks are freed, both are allocated anew; allocateMemory
\* zero-fills, and so does the memset when both succeeded.
allocateFrameBuffer(I, mem) ==
  [I EXCEPT !.frameBuffer = allocateMemory(bufferSize(I), mem.fb),
            !.previousFrame = allocateMemory(bufferSize(I), mem.pf)]

\* memset of the first bufferSize bytes of both buffers.
ZeroPrefix(buf, n) ==
  [buf EXCEPT !.bytes = [i \in 1..Len(buf.bytes) |-> IF i <= n THEN 0 ELSE buf.bytes[i]]]

resetFrameBuffer(I) ==
  IF I.frameBuffer.alloc /\ I.previousFrame.alloc
  THEN [I EXCEPT !.frameBuffer = ZeroPrefix(I.frameBuffer, bufferSize(I)),
                 !.previousFrame = ZeroPrefix(I.previousFrame, bufferSize(I))]
  ELSE I

\* ------------------------------------------------------------ pre-scan

\* while (pos < _dataLength) { size = byte at pos; pos += 1;
\*   if (size == 0) break; pos += size; }  -- the position it ends at.
RECURSIVE skipSubBlocks(_, _)
skipSubBlocks(I, pos) ==
  IF ~(pos < I.dataLength) THEN pos
  ELSE LET b == readData(I, 1, pos) IN
    IF ~b.ok THEN pos
    ELSE IF b.bytes[1] = 0 THEN pos + 1
    ELSE skipSubBlocks(I, pos + 1 + b.bytes[1])

\* pos < _dataLength - 1 in uint32_t: at length 0 the right side is 2^32 - 1.
BelowLengthMinusOne(pos, dataLength) ==
  IF dataLength = 0 THEN TRUE ELSE pos < dataLength - 1

\* The while loop of countFrames from position pos on; the totals it ends with.
RECURSIVE countLoop(_, _, _, _)
countLoop(I, pos, frames, duration) ==
  LET out == [totalFrames |-> frames, totalDuration |-> duration] IN
  IF ~BelowLengthMinusOne(pos, I.dataLength) THEN out
  ELSE LET b == readData(I, 1, pos) IN
    IF ~b.ok THEN out
    ELSE IF b.bytes[1] = 44 THEN
      LET f == (frames + 1) % U16
          fl == readData(I, 1, pos + 10)
      IN IF ~fl.ok THEN [out EXCEPT !.totalFrames = f]
         ELSE LET p2 == IF Bit(fl.bytes[1], 7) = 1
                        THEN pos + 10 + (2 ^ ((fl.bytes[1] % 8) + 1)) * 3 + 1
                        ELSE pos + 10 + 1
              IN countLoop(I, skipSubBlocks(I, p2), f, duration)
    ELSE IF b.bytes[1] = 33 THEN
      LET t == readData(I, 1, pos + 1) IN
      IF ~t.ok THEN out
      ELSE IF t.bytes[1] = 249 THEN
        LET g == readData(I, 5, pos + 2) IN
        IF ~g.ok THEN out
        ELSE LET d == LE16(g.bytes[2], g.bytes[3])
                 delay == IF d < 2 THEN 2 ELSE d
             IN countLoop(I, skipSubBlocks(I, pos + 2 + 5), frames,
                          duration + delay * 10)
      ELSE countLoop(I, skipSubBlocks(I, pos + 2), frames, duration)
    ELSE IF b.bytes[1] = 59 THEN out
    ELSE countLoop(I, pos + 1, frames, duration)

countFrames(I) ==
  LET c == countLoop(I, I.dataPosition, 0, 0) IN
  [I EXCEPT !.totalFrames = c.totalFrames, !.totalDuration = c.totalDuration,
            !.dataPosition = 13 + I.globalColorTableSize * 3]

\* -------------------------------------------------------------- header

IsSignature(header) ==
  SubSeq(header, 1, 6) = Sig89 \/ SubSeq(header, 1, 6) = Sig87

\* The canvas size test of parseHeader and of load.
\* A size test that looks at the width alone.
TooWide_WidthOnly(w, h) == w > ESP32_ANIMATEDGIF_MAX_WIDTH

TooWide(w, h) ==
  w > ESP32_ANIMATEDGIF_MAX_WIDTH \/ h > ESP32_ANIMATEDGIF_MAX_HEIGHT

\* The global color table branch of parseHeader: the old pointer is
\* overwritten, the table is read at position 13 when the block was got.
\* ok = FALSE is the EARLY_EOF return.
parseGlobalColorTable(I, flags, mem) ==
  IF Bit(flags, 7) = 0 THEN [ok |-> TRUE, impl |-> I]
  ELSE
    LET size == 2 ^ ((flags % 8) + 1)
        tab == allocateMemory(size * 3, mem.gct)
        I1 == [I EXCEPT !.globalColorTableSize = size, !.globalColorTable = tab,
                        !.lost = Overwritten(I.globalColorTable, I.lost)]
        rd == readData(I1, size * 3, I1.dataPosition)
    IN IF ~tab.alloc THEN [ok |-> TRUE, impl |-> I1]
       ELSE IF ~rd.ok THEN [ok |-> FALSE, impl |-> I1]
       ELSE [ok |-> TRUE,
             impl |-> [I1 EXCEPT !.globalColorTable.bytes = rd.bytes,
                                 !.dataPosition = I1.dataPosition + size * 3]]

\* parseHeader returns _lastError, the lastError field of the result.
parseHeader(I, mem) ==
  LET rd == readData(I, 13, 0) IN
  IF ~rd.ok THEN [I EXCEPT !.lastError = FILE_NOT_FOUND]
  ELSE IF ~IsSignature(rd.bytes) THEN [I EXCEPT !.lastError = BAD_FILE_FORMAT]
  ELSE
    LET header == rd.bytes
        I1 == [I EXCEPT !.canvasWidth = LE16(header[7], header[8]),
                        !.canvasHeight = LE16(header[9], header[10])]
    IN IF TooWide(I1.canvasWidth, I1.canvasHeight)
       THEN [I1 EXCEPT !.lastError = FILE_TOO_WIDE]
       ELSE
         LET I2 == [I1 EXCEPT !.backgroundColor = header[12], !.dataPosition = 13]
             g == parseGlobalColorTable(I2, header[11], mem)
         IN IF ~g.ok THEN [g.impl EXCEPT !.lastError = EARLY_EOF]
            ELSE [allocateFrameBuffer(countFrames(g.impl), mem)
                    EXCEPT !.lastError = SUCCESS]

\* ---------------------------------------------------------------- load

begin(I, pixelFormat) ==
  [resetState([I EXCEPT !.pixelFormat = pixelFormat]) EXCEPT !.lastError = SUCCESS]

\* data is the buffer, never a null pointer here; its length may be 0.
loadFromMemory(I, data, mem) ==
  LET I0 == cleanup(I)
      copy == allocateMemory(Len(data), mem.data)
  IN IF Len(data) = 0 THEN [I0 EXCEPT !.lastError = INVALID_PARAMETER]
     ELSE IF ~copy.alloc THEN [I0 EXCEPT !.lastError = OUT_OF_MEMORY]
     ELSE parseHeader([I0 EXCEPT !.data = [alloc |-> TRUE, bytes |-> data],
                                 !.dataLength = Len(data),
                                 !.dataPosition = 0], mem)

\* load with reader r, never a null function pointer here.  The table read
\* at 13 is not checked: a failed read leaves the zero-filled block.
load(I, r, mem) ==
  LET I0 == [cleanup(I) EXCEPT !.reader = r]
      rd == readData(I0, 13, 0)
  IN IF ~rd.ok THEN [I0 EXCEPT !.lastError = FILE_NOT_FOUND]
     ELSE IF ~IsSignature(rd.bytes) THEN [I0 EXCEPT !.lastError = BAD_FILE_FORMAT]
     ELSE
       LET header == rd.bytes
           I1 == [I0 EXCEPT !.canvasWidth = LE16(header[7], header[8]),
                            !.canvasHeight = LE16(header[9], header[10])]
           flags == header[11]
           size == 2 ^ ((flags % 8) + 1)
           tab == allocateMemory(size * 3, mem.gct)
           trd == readData(I1, size * 3, 13)
       IN IF TooWide(I1.canvasWidth, I1.canvasHeight)
          THEN [I1 EXCEPT !.lastError = FILE_TOO_WIDE]
          ELSE IF Bit(flags, 7) = 0
            THEN [I1 EXCEPT !.backgroundColor = header[12], !.lastError = SUCCESS]
            ELSE [I1 EXCEPT !.backgroundColor = header[12],
                            !.globalColorTableSize = size,
                            !.globalColorTable =
                               IF tab.alloc /\ trd.ok
                               THEN [alloc |-> TRUE, bytes |-> trd.bytes] ELSE tab,
                            !.lastError = SUCCESS]

\* reset(): the return value of parseHeader is dropped.
\* A reset that rewinds the cursor and leaves the frame index.
reset_KeepsIndex(I, mem) ==
  parseHeader(resetFrameBuffer([I EXCEPT !.dataPosition = 0]), mem)

reset(I, mem) ==
  parseHeader(resetFrameBuffer([I EXCEPT !.dataPosition = 0, !.currentFrame = 0]), mem)

\* A completion test that needs the index to pass the frame count.
isAnimationComplete_Past(I) == ~I.loop /\ I.currentFrame > I.totalFrames

isAnimationComplete(I) == ~I.loop /\ I.currentFrame >= I.totalFrames

\* ------------------------------------------------------ per-frame scan

\* The while (true) loop that skips an extension's sub-blocks.
RECURSIVE skipExtension(_)
skipExtension(I) ==
  LET b == readData(I, 1, I.dataPosition) IN
  IF ~b.ok THEN [ok |-> FALSE, impl |-> [I EXCEPT !.lastError = EARLY_EOF]]
  ELSE IF b.bytes[1] = 0
    THEN [ok |-> TRUE, impl |-> [I EXCEPT !.dataPosition = @ + 1]]
    ELSE skipExtension([I EXCEPT !.dataPosition = @ + 1 + b.bytes[1]])

\* The Graphic Control Extension branch: block[0] is the packed byte,
\* block[1] and block[2] the delay, block[3] the transparent index.
parseGraphicControl(I, block) ==
  LET d == (LE16(block[2], block[3]) * 10) % U16 IN
  [I EXCEPT !.disposalMethod = Bits3(block[1], 2),
            !.hasTransparency = (Bit(block[1], 0) = 1),
            !.frameDelay = IF d < 20 THEN 20 ELSE d,
            !.transparentIndex = block[4],
            !.dataPosition = @ + 5]

\* The Image Descriptor branch, after the nine bytes were read.
parseImageDescriptor(I, block, mem) ==
  LET I1 == [I EXCEPT !.frameX = LE16(block[1], block[2]),
                      !.frameY = LE16(block[3], block[4]),
                      !.frameWidth = LE16(block[5], block[6]),
                      !.frameHeight = LE16(block[7], block[8]),
                      !.imageFlags = block[9],
                      !.dataPosition = @ + 10]
      size == 2 ^ ((block[9] % 8) + 1)
      tab == allocateMemory(size * 3, mem.lct)
      I2 == [I1 EXCEPT !.localColorTableSize = size, !.localColorTable = tab]
      rd == readData(I2, size * 3, I2.dataPosition)
  IN IF Bit(block[9], 7) = 0 THEN [ok |-> TRUE, impl |-> I1]
     ELSE IF ~tab.alloc THEN [ok |-> TRUE, impl |-> I2]
     ELSE IF ~rd.ok THEN [ok |-> FALSE, impl |-> [I2 EXCEPT !.lastError = EARLY_EOF]]
     ELSE [ok |-> TRUE,
           impl |-> [I2 EXCEPT !.localColorTable.bytes = rd.bytes,
                               !.dataPosition = @ + size * 3]]

\* The while (_dataPosition < _dataLength) loop of parseFrame.
RECURSIVE parseLoop(_, _)
parseLoop(I, mem) ==
  LET eof == [ok |-> FALSE, impl |-> [I EXCEPT !.lastError = EARLY_EOF]]
      empty == [ok |-> FALSE, impl |-> [I EXCEPT !.lastError = EMPTY_FRAME]]
  IN
  IF ~(I.dataPosition < I.dataLength) THEN empty
  ELSE LET b == readData(I, 1, I.dataPosition) IN
    IF ~b.ok THEN eof
    ELSE IF b.bytes[1] = 33 THEN
      LET I1 == [I EXCEPT !.dataPosition = @ + 1]
          t == readData(I1, 1, I1.dataPosition)
          I2 == [I1 EXCEPT !.dataPosition = @ + 1]
          g == readData(I2, 5, I2.dataPosition)
      IN IF ~t.ok THEN [ok |-> FALSE, impl |-> [I1 EXCEPT !.lastError = EARLY_EOF]]
         ELSE IF t.bytes[1] = 249 /\ ~g.ok
           THEN [ok |-> FALSE, impl |-> [I2 EXCEPT !.lastError = EARLY_EOF]]
         ELSE LET s == skipExtension(IF t.bytes[1] = 249
                                     THEN parseGraphicControl(I2, g.bytes) ELSE I2)
              IN IF ~s.ok THEN s ELSE parseLoop(s.impl, mem)
    ELSE IF b.bytes[1] = 44 THEN
      LET d == readData(I, 9, I.dataPosition + 1) IN
      IF ~d.ok THEN eof ELSE parseImageDescriptor(I, d.bytes, mem)
    ELSE IF b.bytes[1] = 59 THEN empty
    ELSE parseLoop([I EXCEPT !.dataPosition = @ + 1], mem)

parseFrame(I, mem) == parseLoop(resetFrameState(I), mem)

\* ---------------------------------------------------------- conversion

\* A packing that keeps all eight bits of every channel.
rgb888To565_Unmasked(r, g, b) == (r * 256 + g * 8 + (b \div 8)) % U16

rgb888To565(r, g, b) ==
  ((r - (r % 8)) * 256 + (g - (g % 4)) * 8 + (b \div 8)) % U16

rgb888ToGrayscale(r, g, b) == ((r * 77 + g * 150 + b * 29) \div 256) % U8

\* v with bit k set (on) or cleared.
SetBit(v, k, on) ==
  IF on THEN (IF Bit(v, k) = 1 THEN v ELSE v + 2 ^ k)
  ELSE (IF Bit(v, k) = 1 THEN v - 2 ^ k ELSE v)

\* The bytes of buf with vals stored from byte offset off on.
Store(bytes, off, vals) ==
  [i \in 1..Len(bytes) |->
     IF i > off /\ i <= off + Len(vals) THEN vals[i - off] ELSE bytes[i]]

\* _pixelCallback(_callbackData, x, y, color) when a callback is registered:
\* the calls made, with this invocation appended.
invokePixelCallback(I, x, y, color) ==
  IF I.pixelCallback = 0 THEN I.invoked
  ELSE Append(I.invoked, [x |-> x, y |-> y, color |-> color,
                          kind |-> "pixel", fn |-> I.pixelCallback,
                          userData |-> I.callbackData])

\* The switch of drawPixel on an allocated _frameBuffer: the buffer after it.
storePixel(I, x, y, r, g, b) ==
  IF ~I.frameBuffer.alloc THEN I.frameBuffer
  ELSE
    LET offset == y * I.canvasWidth + x
        color == rgb888To565(r, g, b)
        gray == rgb888ToGrayscale(r, g, b)
        byteOffset == (offset \div 8) % U8
        fb == I.frameBuffer.bytes
        out ==
          CASE I.pixelFormat = "RGB565_LE" ->
                 Store(fb, offset * 2, <<color % 256, color \div 256>>)
            [] I.pixelFormat = "RGB565_BE" ->
                 Store(fb, offset * 2, <<color \div 256, color % 256>>)
            [] I.pixelFormat = "RGB888" -> Store(fb, offset * 3, <<r, g, b>>)
            [] I.pixelFormat = "ARGB8888" -> Store(fb, offset * 4, <<255, r, g, b>>)
            [] I.pixelFormat = "GRAYSCALE_8BIT" -> Store(fb, offset, <<gray>>)
            [] I.pixelFormat = "MONOCHROME_1BIT" ->
                 Store(fb, byteOffset,
                       <<SetBit(fb[byteOffset + 1], 7 - (x % 8), gray > 127)>>)
    IN [alloc |-> TRUE, bytes |-> out]

\* x and y are the uint16_t parameters.
drawPixel(I, x, y, r, g, b) ==
  IF x >= I.canvasWidth \/ y >= I.canvasHeight THEN I
  ELSE [I EXCEPT !.invoked = invokePixelCallback(I, x, y, rgb888To565(r, g, b)),
                 !.frameBuffer = storePixel(I, x, y, r, g, b)]

\* ------------------------------------------------------------- drawing

\* What the build does with the two undefined operations of the drawing code:
\* the remainder by a _localColorTableSize of 0 either traps or yields the
\* dividend, and a byte read past the end of a color table yields oob.
UBOutcomes == [divzero : {"trap", "dividend"}, oob : {0, 255}]

\* colorTable[index] on the uint32_t* view of the table's bytes (little
\* endian): r = (rgb >> 16) & 0xFF, g = (rgb >> 8) & 0xFF, b = rgb & 0xFF.
ByteAt(bytes, off, oob) == IF off < Len(bytes) THEN bytes[off + 1] ELSE oob

colorAt(table, index, ub) ==
  [r |-> ByteAt(table.bytes, 4 * index + 2, ub.oob),
   g |-> ByteAt(table.bytes, 4 * index + 1, ub.oob),
   b |-> ByteAt(table.bytes, 4 * index, ub.oob)]

\* The palette index of frame pixel (x, y): (x + y) % _localColorTableSize
\* stored in a uint8_t.
colorIndex(I, x, y) ==
  IF I.localColorTableSize = 0 THEN (x + y) % U8
  ELSE ((x + y) % I.localColorTableSize) % U8

\* The two loops of fillTestPattern from pixel k on, row by row.
RECURSIVE fillLoop(_, _, _, _)
fillLoop(I, table, k, ub) ==
  IF k >= I.frameWidth * I.frameHeight THEN I
  ELSE
    LET x == k % I.frameWidth
        y == k \div I.frameWidth
        ci == colorIndex(I, x, y)
        c == colorAt(table, ci, ub)
    IN IF I.hasTransparency /\ ci = I.transparentIndex
       THEN fillLoop(I, table, k + 1, ub)
       ELSE fillLoop(drawPixel(I, (x + I.frameX) % U16, (y + I.frameY) % U16,
                               c.r, c.g, c.b),
                     table, k + 1, ub)

\* _localColorTable ? _localColorTable : _globalColorTable
activeColorTable(I) ==
  IF I.localColorTable.alloc THEN I.localColorTable ELSE I.globalColorTable

\* Impl::setFrameCallback and Impl::setPixelCallback: 0 is the null function
\* pointer; one _callbackData serves both.
setFrameCallback(I, callback, userData) ==
  [I EXCEPT !.frameCallback = callback, !.callbackData = userData]

setPixelCallback(I, callback, userData) ==
  [I EXCEPT !.pixelCallback = callback, !.callbackData = userData]

\* trap: the remainder by zero stopped the program.
fillTestPattern(I, ub) ==
  LET colorTable == activeColorTable(I)
  IN IF ~colorTable.alloc \/ ~I.frameBuffer.alloc THEN [trap |-> FALSE, impl |-> I]
     ELSE IF I.localColorTableSize = 0 /\ I.frameWidth * I.frameHeight > 0
             /\ ub.divzero = "trap"
       THEN [trap |-> TRUE, impl |-> I]
       ELSE [trap |-> FALSE, impl |-> fillLoop(I, colorTable, 0, ub)]

\* The do-while of decodeFrame: the position after the chain, or failure.
RECURSIVE skipImageData(_)
skipImageData(I) ==
  LET b == readData(I, 1, I.dataPosition) IN
  IF ~b.ok THEN [ok |-> FALSE, impl |-> [I EXCEPT !.lastError = DECODE_ERROR]]
  ELSE IF b.bytes[1] > 0
    THEN skipImageData([I EXCEPT !.dataPosition = @ + 1 + b.bytes[1]])
    ELSE [ok |-> TRUE, impl |-> [I EXCEPT !.dataPosition = @ + 1]]

\* decodeFrame after the sub-block chain was skipped (s).
afterSkipImageData(s, ub) ==
  IF ~s.ok THEN [ok |-> FALSE, trap |-> FALSE, impl |-> s.impl]
  ELSE [ok |-> TRUE] @@ fillTestPattern(s.impl, ub)

decodeFrame(I, ub) ==
  IF ~readData(I, 1, I.dataPosition).ok
  THEN [ok |-> FALSE, trap |-> FALSE, impl |-> [I EXCEPT !.lastError = DECODE_ERROR]]
  ELSE afterSkipImageData(skipImageData([I EXCEPT !.dataPosition = @ + 1]), ub)

\* ------------------------------------------------------------ disposal

\* memcpy(dst, src, n)
CopyPrefix(dst, src, n) ==
  [i \in 1..Len(dst) |-> IF i <= n /\ i <= Len(src) THEN src[i] ELSE dst[i]]

\* The two loops of the restore-to-background branch from pixel k on.
RECURSIVE backgroundLoop(_, _, _)
backgroundLoop(I, c, k) ==
  IF k >= I.frameWidth * I.frameHeight THEN I
  ELSE backgroundLoop(
         drawPixel(I, ((k % I.frameWidth) + I.frameX) % U16,
                   ((k \div I.frameWidth) + I.frameY) % U16, c.r, c.g, c.b),
         c, k + 1)

\* The snapshot taken at the end of applyDisposal.
saveCurrentFrame(I) ==
  IF I.frameBuffer.alloc /\ I.previousFrame.alloc
  THEN [I EXCEPT !.previousFrame.bytes =
                    CopyPrefix(I.previousFrame.bytes, I.frameBuffer.bytes, bufferSize(I))]
  ELSE I

applyDisposal(I, ub) ==
  saveCurrentFrame(
    IF I.disposalMethod = 2 THEN
      IF I.globalColorTable.alloc /\ I.backgroundColor < I.globalColorTableSize
      THEN backgroundLoop(I, colorAt(I.globalColorTable, I.backgroundColor, ub), 0)
      ELSE I
    ELSE IF I.disposalMethod = 3 THEN
      IF I.frameBuffer.alloc /\ I.previousFrame.alloc
      THEN [I EXCEPT !.frameBuffer.bytes =
                        CopyPrefix(I.frameBuffer.bytes, I.previousFrame.bytes,
                                   bufferSize(I))]
      ELSE I
    ELSE I)

\* ----------------------------------------------------------- nextFrame

\* What nextFrame hands back here.  ret: the value returned; trap: the call
\* did not return; restart: the call went through reset(); before: the
\* canvas when the frame scan began; drawn: the canvas as decodeFrame left
\* it, before applyDisposal.
Outcome(ret, I, restart, before, drawn) ==
  [ret |-> ret, trap |-> FALSE, impl |-> I, restart |-> restart,
   before |-> before, drawn |-> drawn]

\* A nextFrame that steps the frame index even when decodeFrame failed.
afterDecodeFrame_StepsOnFailure(d, restart, before, ub) ==
  IF ~d.ok
    THEN Outcome(d.impl.lastError,
                 [d.impl EXCEPT !.currentFrame = (@ + 1) % U16],
                 restart, before, d.impl.frameBuffer)
  ELSE IF d.trap
    THEN [Outcome("TRAP", d.impl, restart, before, d.impl.frameBuffer)
            EXCEPT !.trap = TRUE]
  ELSE Outcome(SUCCESS,
               [applyDisposal(d.impl, ub) EXCEPT !.currentFrame = (@ + 1) % U16],
               restart, before, d.impl.frameBuffer)

\* nextFrame after decodeFrame handed back d: the trap, the failure return,
\* or applyDisposal and the step of the frame index.
afterDecodeFrame(d, restart, before, ub) ==
  IF ~d.ok
    THEN Outcome(d.impl.lastError, d.impl, restart, before, d.impl.frameBuffer)
  ELSE IF d.trap
    THEN [Outcome("TRAP", d.impl, restart, before, d.impl.frameBuffer)
            EXCEPT !.trap = TRUE]
  ELSE Outcome(SUCCESS,
               [applyDisposal(d.impl, ub) EXCEPT !.currentFrame = (@ + 1) % U16],
               restart, before, d.impl.frameBuffer)

\* nextFrame after parseFrame handed back p.
afterParseFrame(p, restart, before, ub) ==
  IF ~p.ok
  THEN Outcome(p.impl.lastError, p.impl, restart, before, p.impl.frameBuffer)
  ELSE afterDecodeFrame(decodeFrame(p.impl, ub), restart, before, ub)

\* nextFrame from parseFrame on, on the object I1 the restart test left.
scanFrame(I1, restart, mem, ub) ==
  afterParseFrame(parseFrame(I1, mem), restart, I1.frameBuffer, ub)

\* nextFrame from the restart test on.
advanceFrame(I, mem, ub) ==
  IF I.currentFrame >= I.totalFrames
  THEN IF I.loop
       THEN scanFrame(reset(I, mem), TRUE, mem, ub)
       ELSE Outcome(EMPTY_FRAME, [I EXCEPT !.lastError = EMPTY_FRAME], FALSE,
                    I.frameBuffer, I.frameBuffer)
  ELSE scanFrame(I, FALSE, mem, ub)

\* A nextFrame without the test of _lastError.
nextFrame_Ungated(I, mem, ub) == advanceFrame(I, mem, ub)

nextFrame(I, mem, ub) ==
  IF I.lastError # SUCCESS
  THEN Outcome(I.lastError, I, FALSE, I.frameBuffer, I.frameBuffer)
  ELSE advanceFrame(I, mem, ub)

\* ------------------------------------------------------- state machine

\* Consecutive nextFrame calls after a load are counted up to MaxCalls.
MaxCalls == 6

VARIABLES
  impl,      \* the Impl object
  lastOp,    \* the last public method called
  lastRet,   \* what it returned ("" for the void methods)
  crashed,   \* the program was stopped by a trap
  hist       \* what the calls so far were, for the properties below

vars == <<impl, lastOp, lastRet, crashed, hist>>

NoFrame ==
  [valid |-> FALSE, index |-> 0, x |-> 0, y |-> 0, w |-> 0, h |-> 0,
   disposal |-> 0, before |-> NULL]

\* mode: "mem" or "reader" after a load that returned SUCCESS, as long as
\*   only nextFrame, reset and setLoop were called since; postLoad: the object
\*   that load left.
\* calls, priorOK, firstCanvas: the nextFrame calls made right after that
\*   load with no other call in between, whether all but the last returned
\*   SUCCESS, and the canvas the first of them left.
\* ended: a nextFrame call has returned EMPTY_FRAME because playback was
\*   exhausted without looping, and neither reset, a load nor setLoop(true)
\*   was called since.
\* last, prev: the frame the last nextFrame call drew and the frame the call
\*   before it drew, when both belong to the same pass.
\* drawn: the canvas as the last nextFrame call's decodeFrame left it.
NoHist ==
  [mode |-> "none", postLoad |-> NewImpl, calls |-> 0, priorOK |-> TRUE,
   firstCanvas |-> NULL, ended |-> FALSE,
   last |-> NoFrame, prev |-> NoFrame, drawn |-> NULL]

Init ==
  /\ impl = NewImpl
  /\ lastOp = "new"
  /\ lastRet = ""
  /\ crashed = FALSE
  /\ hist = NoHist

Step(op, ret, I, h) ==
  /\ ~crashed
  /\ impl' = I
  /\ lastOp' = op
  /\ lastRet' = ret
  /\ hist' = h
  /\ crashed' = FALSE

Begin(pixelFormat) ==
  Step("begin", "", begin(impl, pixelFormat),
       [NoHist EXCEPT !.ended = hist.ended])

\* A load that left the object I.
Loaded(op, mode, I) ==
  Step(op, I.lastError, I,
       IF I.lastError = SUCCESS
       THEN [NoHist EXCEPT !.mode = mode, !.postLoad = I] ELSE NoHist)

LoadFromMemory(m) ==
  Loaded("loadFromMemory", "mem", loadFromMemory(impl, Streams[m], AllOK))

Load(r) == Loaded("load", "reader", load(impl, r, AllOK))

Reset ==
  Step("reset", "", reset(impl, AllOK),
       [NoHist EXCEPT !.mode = hist.mode, !.postLoad = hist.postLoad,
                      !.calls = MaxCalls, !.drawn = hist.drawn])

SetLoop(b) ==
  Step("setLoop", "", [impl EXCEPT !.loop = b],
       [hist EXCEPT !.calls = MaxCalls, !.ended = @ /\ ~b])

FrameOf(r) ==
  [valid |-> TRUE, index |-> r.impl.currentFrame,
   x |-> r.impl.frameX, y |-> r.impl.frameY,
   w |-> r.impl.frameWidth, h |-> r.impl.frameHeight,
   disposal |-> r.impl.disposalMethod, before |-> r.before]

\* A nextFrame call that handed back r.
Played(r) ==
  /\ ~crashed
  /\ impl' = r.impl
  /\ lastOp' = "nextFrame"
  /\ lastRet' = r.ret
  /\ crashed' = r.trap
  /\ hist' =
       [hist EXCEPT
          !.calls = IF @ < MaxCalls THEN @ + 1 ELSE MaxCalls,
          !.priorOK = (hist.calls = 0) \/ (@ /\ lastRet = SUCCESS),
          !.firstCanvas = IF hist.calls = 0 THEN r.impl.frameBuffer ELSE @,
          !.ended = @ \/ (impl.lastError = SUCCESS /\ ~impl.loop
                          /\ impl.currentFrame >= impl.totalFrames),
          !.prev = IF r.ret = SUCCESS /\ ~r.restart THEN hist.last ELSE NoFrame,
          !.last = IF r.ret = SUCCESS THEN FrameOf(r) ELSE NoFrame,
          !.drawn = r.drawn]

NextFrame(ub) == Played(nextFrame(impl, AllOK, ub))

Next ==
  \/ \E f \in Formats : Begin(f)
  \/ \E m \in MemoryStreams : LoadFromMemory(m)
  \/ \E r \in ReaderStreams : Load(r)
  \/ \E ub \in UBOutcomes : NextFrame(ub)
  \/ Reset
  \/ \E b \in BOOLEAN : SetLoop(b)

Spec == Init /\ [][Next]_vars

\* ------------------------------------------------------------ properties

\* The first six bytes are one of the two signatures.
StartsWithSignature(bytes) ==
  Len(bytes) >= 6 /\ SubSeq(bytes, 1, 6) \in {Sig89, Sig87}

\* C1: for every buffer of length at least 1 whose first six bytes are
\* neither "GIF87a" nor "GIF89a", loadFromMemory returns BAD_FILE_FORMAT,
\* records it as the last error and leaves both canvas buffers unallocated.
C1_BadSignatureRejected ==
  (lastOp = "loadFromMemory" /\ impl.data.alloc
     /\ Len(impl.data.bytes) >= 1 /\ ~StartsWithSignature(impl.data.bytes))
  => /\ lastRet = BAD_FILE_FORMAT
     /\ impl.lastError = BAD_FILE_FORMAT
     /\ ~impl.frameBuffer.alloc
     /\ ~impl.previousFrame.alloc

\* The 13-byte header as the load that has just run was served it.
ServedHeader == readData(impl, 13, 0)

MemorySession(r) ==
  loadFromMemory([NewImpl EXCEPT !.pixelFormat = impl.pixelFormat,
                                 !.loop = impl.loop],
                 Streams[r], AllOK)

\* What the k-th of k nextFrame calls in a row on I hands back, k >= 1.
RECURSIVE Replay(_, _, _)
Replay(I, k, ub) ==
  IF k <= 1 THEN nextFrame(I, AllOK, ub)
  ELSE Replay(nextFrame(I, AllOK, ub).impl, k - 1, ub)

\* The load left what it left in the session M.
SameLoad(M) ==
  /\ lastRet = M.lastError
  /\ impl.canvasWidth = M.canvasWidth
  /\ impl.canvasHeight = M.canvasHeight
  /\ impl.totalFrames = M.totalFrames
  /\ impl.totalDuration = M.totalDuration

\* The nextFrame call handed back what r holds.
SameFrame(r) ==
  /\ lastRet = r.ret
  /\ impl.currentFrame = r.impl.currentFrame
  /\ impl.frameBuffer = r.impl.frameBuffer

\* C3: a stream loaded through the reader callback shows the same result,
\* canvas size, frame count and duration as the same bytes loaded from
\* memory, and every nextFrame call that follows returns the same value and
\* leaves the same frame index and canvas.
C3_ReaderMatchesMemory ==
  /\ (lastOp = "load") => SameLoad(MemorySession(impl.reader))
  /\ (lastOp = "nextFrame" /\ hist.mode = "reader" /\ hist.calls < MaxCalls) =>
       \E ub \in UBOutcomes :
         SameFrame(Replay(MemorySession(impl.reader), hist.calls, ub))

\* C4: with looping enabled, after N successful nextFrame calls on a stream
\* of N frames, the next call returns SUCCESS, leaves the frame index at 1
\* and leaves the canvas the first call of the session left.
C4_LoopRestartsAtFirstFrame ==
  (lastOp = "nextFrame" /\ hist.mode = "mem" /\ impl.loop
     /\ hist.postLoad.totalFrames >= 1
     /\ hist.calls = hist.postLoad.totalFrames + 1 /\ hist.calls < MaxCalls
     /\ hist.priorOK)
  => /\ lastRet = SUCCESS
     /\ impl.currentFrame = 1
     /\ impl.frameBuffer = hist.firstCanvas

ErrorSticks(clearing) ==
  impl.lastError # SUCCESS =>
    /\ lastOp' = "nextFrame" =>
         /\ lastRet' = impl.lastError
         /\ impl'.lastError = impl.lastError
         /\ impl'.currentFrame = impl.currentFrame
         /\ impl'.dataPosition = impl.dataPosition
         /\ impl'.frameBuffer = impl.frameBuffer
         /\ impl'.previousFrame = impl.previousFrame
    /\ lastOp' \notin clearing => impl'.lastError # SUCCESS

\* C6 as stated: once the last error is not SUCCESS, every later nextFrame
\* call returns that error and changes neither the frame index, the cursor
\* nor the canvas buffers, and the last error stays set across all other
\* public calls until reset(), load() or loadFromMemory().
C6_ErrorSticksUntilResetOrLoad ==
  [][ErrorSticks({"reset", "load", "loadFromMemory"})]_vars

\* C6, amended: once the last error is not SUCCESS, every later nextFrame
\* call returns that error and changes neither the frame index, the cursor
\* nor the canvas buffers, and the last error stays set across all other
\* public calls until begin(), reset(), load() or loadFromMemory().
C6_ErrorSticksUntilBeginResetOrLoad ==
  [][ErrorSticks({"begin", "reset", "load", "loadFromMemory"})]_vars

\* A frame failed to decode, and two more nextFrame calls were refused with
\* the same error.
C6_Witness ==
  /\ lastOp = "nextFrame"
  /\ lastRet = DECODE_ERROR
  /\ impl.lastError = DECODE_ERROR
  /\ hist.mode = "mem"
  /\ hist.calls = 3
  /\ impl.currentFrame = 0

AllZero(buffer) == \A i \in 1..Len(buffer.bytes) : buffer.bytes[i] = 0

\* C7: on a stream loaded from memory, after any nextFrame calls, reset()
\* leaves the frame index 0, the cursor just after the header and the global
\* color table, both canvas buffers all zero, the last error SUCCESS, and the
\* frame count and total duration of the load: the state the load left.
C7_ResetRestoresLoadedState ==
  (lastOp = "reset" /\ hist.mode = "mem") =>
    /\ impl.currentFrame = 0
    /\ impl.dataPosition = 13 + 3 * impl.globalColorTableSize
    /\ impl.dataPosition = hist.postLoad.dataPosition
    /\ impl.frameBuffer.alloc /\ AllZero(impl.frameBuffer)
    /\ impl.previousFrame.alloc /\ AllZero(impl.previousFrame)
    /\ impl.frameBuffer = hist.postLoad.frameBuffer
    /\ impl.previousFrame = hist.postLoad.previousFrame
    /\ impl.lastError = SUCCESS
    /\ impl.totalFrames = hist.postLoad.totalFrames
    /\ impl.totalDuration = hist.postLoad.totalDuration
    /\ impl.currentFrame = hist.postLoad.currentFrame
    /\ impl.lastError = hist.postLoad.lastError

\* reset() has run on a stream of several frames after a nextFrame call that
\* drew on the canvas.
C7_Witness ==
  /\ lastOp = "reset"
  /\ hist.mode = "mem"
  /\ impl.totalFrames >= 2
  /\ hist.drawn.alloc /\ ~AllZero(hist.drawn)
  /\ AllZero(impl.frameBuffer)
  /\ impl.currentFrame = 0

\* The value of canvas pixel (x, y) in buffer, read where drawPixel stores it.
PixelAt(I, buffer, x, y) ==
  LET offset == y * I.canvasWidth + x
      n == CASE I.pixelFormat \in {"RGB565_LE", "RGB565_BE"} -> 2
             [] I.pixelFormat = "RGB888" -> 3
             [] I.pixelFormat = "ARGB8888" -> 4
             [] OTHER -> 1
  IN IF I.pixelFormat = "MONOCHROME_1BIT"
     THEN <<Bit(buffer.bytes[((offset \div 8) % U8) + 1], 7 - (x % 8))>>
     ELSE SubSeq(buffer.bytes, offset * n + 1, offset * n + n)

\* The value a pixel of color (r, g, b) has in the pixel format of I.
PixelOf(I, r, g, b) ==
  LET color == rgb888To565(r, g, b)
      gray == rgb888ToGrayscale(r, g, b)
  IN CASE I.pixelFormat = "RGB565_LE" -> <<color % 256, color \div 256>>
       [] I.pixelFormat = "RGB565_BE" -> <<color \div 256, color % 256>>
       [] I.pixelFormat = "RGB888" -> <<r, g, b>>
       [] I.pixelFormat = "ARGB8888" -> <<255, r, g, b>>
       [] I.pixelFormat = "GRAYSCALE_8BIT" -> <<gray>>
       [] OTHER -> <<IF gray > 127 THEN 1 ELSE 0>>

InRect(f, x, y) ==
  x >= f.x /\ x < f.x + f.w /\ y >= f.y /\ y < f.y + f.h

\* C8: when nextFrame returns SUCCESS for a frame, the canvas holds that
\* frame's non-transparent pixels inside the frame's rectangle, whatever the
\* frame's own disposal method: its disposal is not applied in that call.
C8_FrameShownByItsOwnCall ==
  (lastOp = "nextFrame" /\ lastRet = SUCCESS) =>
    \A x \in 0..(impl.canvasWidth - 1), y \in 0..(impl.canvasHeight - 1) :
      (/\ InRect(hist.last, x, y)
       /\ ~(impl.hasTransparency
            /\ colorIndex(impl, x - impl.frameX, y - impl.frameY)
                 = impl.transparentIndex))
      => PixelAt(impl, impl.frameBuffer, x, y) = PixelAt(impl, hist.drawn, x, y)

\* C9: when the frame before had disposal 2 (RestoreBackground), after the
\* nextFrame call of the frame that follows every canvas pixel inside the
\* earlier frame's rectangle and outside the later frame's equals the global
\* color table entry at the background index, in the session's pixel format.
C9_BackgroundRestored ==
  (lastOp = "nextFrame" /\ lastRet = SUCCESS /\ hist.prev.valid
     /\ hist.prev.disposal = 2 /\ impl.globalColorTable.alloc
     /\ impl.backgroundColor < impl.globalColorTableSize) =>
    LET t == impl.globalColorTable.bytes
        i == impl.backgroundColor
    IN \A x \in 0..(impl.canvasWidth - 1), y \in 0..(impl.canvasHeight - 1) :
         (InRect(hist.prev, x, y) /\ ~InRect(hist.last, x, y))
         => PixelAt(impl, impl.frameBuffer, x, y)
              = PixelOf(impl, t[3 * i + 1], t[3 * i + 2], t[3 * i + 3])

\* C10: when the frame before had disposal 3 (RestorePrevious), after the
\* nextFrame call of the frame that follows every canvas pixel outside the
\* later frame's rectangle has the value it had just before the earlier
\* frame was drawn.
C10_PreviousRestored ==
  (lastOp = "nextFrame" /\ lastRet = SUCCESS /\ hist.prev.valid
     /\ hist.prev.disposal = 3 /\ hist.prev.before.alloc) =>
    \A x \in 0..(impl.canvasWidth - 1), y \in 0..(impl.canvasHeight - 1) :
      ~InRect(hist.last, x, y)
      => PixelAt(impl, impl.frameBuffer, x, y)
           = PixelAt(impl, hist.prev.before, x, y)

\* ------------------------------------------------- the stream's grammar

\* The position after the sub-block chain that starts at pos.
RECURSIVE SubBlocksEnd(_, _)
SubBlocksEnd(bytes, pos) ==
  IF pos >= Len(bytes) THEN pos
  ELSE IF bytes[pos + 1] = 0 THEN pos + 1
  ELSE SubBlocksEnd(bytes, pos + 1 + bytes[pos + 1])

\* The data bytes of the sub-block chain that starts at pos.
RECURSIVE SubBlocksData(_, _)
SubBlocksData(bytes, pos) ==
  IF pos >= Len(bytes) \/ bytes[pos + 1] = 0 THEN << >>
  ELSE IF pos + 1 + bytes[pos + 1] > Len(bytes) THEN << >>
  ELSE SubSeq(bytes, pos + 2, pos + 1 + bytes[pos + 1])
         \o SubBlocksData(bytes, pos + 1 + bytes[pos + 1])

\* The size in bytes of the color table a packed flags byte announces.
TableBytes(flags) == IF Bit(flags, 7) = 1 THEN 3 * 2 ^ ((flags % 8) + 1) ELSE 0

\* The positions of the LZW minimum code size byte of every image of a
\* stream, read block by block from pos on as GIF89a lays blocks out: an
\* Image Descriptor is 0x2C and nine bytes, the last of them the packed flags,
\* then the local color table if flagged, then the image data; an extension
\* is 0x21, a label and a sub-block chain; anything else ends the stream.
RECURSIVE GifImages(_, _)
GifImages(bytes, pos) ==
  IF pos + 10 <= Len(bytes) /\ bytes[pos + 1] = 44 THEN
    <<pos + 10 + TableBytes(bytes[pos + 10])>>
      \o GifImages(bytes,
                   SubBlocksEnd(bytes, pos + 11 + TableBytes(bytes[pos + 10])))
  ELSE IF pos + 2 <= Len(bytes) /\ bytes[pos + 1] = 33 THEN
    GifImages(bytes, SubBlocksEnd(bytes, pos + 2))
  ELSE << >>

\* The images of a whole stream with a full header.
ImagesOf(bytes) == GifImages(bytes, 13 + TableBytes(bytes[11]))

\* ------------------------------------------------------------------ LZW

\* The bits of a payload, least significant bit of each byte first.
BitsOf(payload) ==
  [i \in 1..(8 * Len(payload)) |-> Bit(payload[((i - 1) \div 8) + 1], (i - 1) % 8)]

\* The code of the given width that starts at bit position at.
RECURSIVE CodeAt(_, _, _)
CodeAt(bits, at, width) ==
  IF width = 0 THEN 0
  ELSE bits[at + 1] + 2 * CodeAt(bits, at + 1, width - 1)

\* The LZW decoder of GIF: Clear = 2^M, End = Clear + 1, first code width
\* M + 1, first free code Clear + 2, width grown when the table fills it, up
\* to 12 bits.  dict holds the strings of the codes from Clear + 2 on, prev the
\* string of the code before, out the indices so far.
RECURSIVE LzwLoop(_, _, _, _, _, _, _)
LzwEmit(entry, bits, at, width, M, dict, prev, out) ==
  LET d2 == IF prev = << >> THEN dict ELSE Append(dict, Append(prev, entry[1]))
  IN LzwLoop(bits, at,
             IF 2 ^ M + 2 + Len(d2) >= 2 ^ width /\ width < 12
             THEN width + 1 ELSE width,
             M, d2, entry, out \o entry)

LzwStep(c, bits, at, width, M, dict, prev, out) ==
  IF c = 2 ^ M THEN LzwLoop(bits, at, M + 1, M, << >>, << >>, out)
  ELSE IF c = 2 ^ M + 1 THEN out
  ELSE IF c < 2 ^ M THEN LzwEmit(<<c>>, bits, at, width, M, dict, prev, out)
  ELSE IF c - 2 ^ M - 1 <= Len(dict)
    THEN LzwEmit(dict[c - 2 ^ M - 1], bits, at, width, M, dict, prev, out)
  ELSE IF prev # << >> /\ c - 2 ^ M - 1 = Len(dict) + 1
    THEN LzwEmit(Append(prev, prev[1]), bits, at, width, M, dict, prev, out)
  ELSE out

LzwLoop(bits, at, width, M, dict, prev, out) ==
  IF at + width > Len(bits) THEN out
  ELSE LzwStep(CodeAt(bits, at, width), bits, at + width, width, M, dict, prev, out)

LzwDecode(payload, M) == LzwLoop(BitsOf(payload), 0, M + 1, M, << >>, << >>, << >>)

\* The indices the image at position pos of a stream decodes to.
ImageIndices(bytes, pos) ==
  LzwDecode(SubBlocksData(bytes, pos + 1), bytes[pos + 1])

\* Frame pixel k, row by row, was drawn with palette index indices[k + 1].
DrawnWith(indices) ==
  \A k \in 0..(impl.frameWidth * impl.frameHeight - 1) :
    colorIndex(impl, k % impl.frameWidth, k \div impl.frameWidth)
      = indices[k + 1]

\* The indices of the image the last nextFrame call drew, when the stream
\* has that image and its payload decodes to one index per frame pixel.
DecodedIndices(images) ==
  IF hist.last.index <= Len(images)
  THEN ImageIndices(impl.data.bytes, images[hist.last.index])
  ELSE << >>

FrameIsDecoded(indices) ==
  (Len(indices) = impl.frameWidth * impl.frameHeight /\ Len(indices) > 0)
  => DrawnWith(indices)

\* C11: the palette indices nextFrame draws for a frame are the indices its
\* sub-block payload LZW-decodes to, one per frame pixel, row by row.
C11_DrawsLzwDecodedIndices ==
  (lastOp = "nextFrame" /\ lastRet = SUCCESS /\ hist.mode = "mem"
     /\ impl.reader = 0 /\ hist.last.valid
     /\ activeColorTable(impl).alloc /\ impl.frameBuffer.alloc)
  => FrameIsDecoded(DecodedIndices(ImagesOf(impl.data.bytes)))

\* C12: for a frame whose Image Descriptor flags no local color table,
\* nextFrame resolves colors from the global color table, whatever frames
\* came before it, in this pass or in an earlier one.
C12_LocalTableIsPerFrame ==
  (lastOp = "nextFrame" /\ lastRet = SUCCESS /\ Bit(impl.imageFlags, 7) = 0)
  => activeColorTable(impl) = impl.globalColorTable

\* The number of entries the table picked for drawing was loaded with.
ActiveTableSize(I) ==
  IF I.localColorTable.alloc THEN I.localColorTableSize
  ELSE I.globalColorTableSize

\* Entry i of a color table as loaded: the bytes 3i, 3i+1, 3i+2.
Triplet(table, i) ==
  [r |-> table.bytes[3 * i + 1], g |-> table.bytes[3 * i + 2],
   b |-> table.bytes[3 * i + 3]]

\* C13: for every index below the active color table's size, the color used
\* for drawing, and the color used for the RestoreBackground fill, is the
\* triplet stored as that entry of the table, whatever lies beyond the
\* table's size x 3 bytes.
C13_ColorIsTableTriplet ==
  (lastOp = "nextFrame" /\ lastRet = SUCCESS) =>
    /\ activeColorTable(impl).alloc =>
         \A i \in 0..(ActiveTableSize(impl) - 1), ub \in UBOutcomes :
           colorAt(activeColorTable(impl), i, ub)
             = Triplet(activeColorTable(impl), i)
    /\ (impl.globalColorTable.alloc
          /\ impl.backgroundColor < impl.globalColorTableSize) =>
         \A ub \in UBOutcomes :
           colorAt(impl.globalColorTable, impl.backgroundColor, ub)
             = Triplet(impl.globalColorTable, impl.backgroundColor)

\* ------------------------------------------ the private methods, one by one

\* Streams for the loads below.  9: one frame with a local color table of
\* two entries whose first color is (0, 0, 44).  10: one frame after a Graphic
\* Control Extension whose bytes after the label are 4, 154, 25, 0, 0.
TableM == <<0, 0, 44,  9, 9, 9>>
StreamLctFirstColor ==
  Header(1, 1, 0, 0)
    \o ImageDescriptor(0, 0, 1, 1, 128) \o TableM \o ImageData
    \o Trailer
StreamLongDelay ==
  Header(1, 1, 0, 0)
    \o GCE(4, 154, 25, 0, 0) \o ImageDescriptor(0, 0, 1, 1, 0) \o ImageData
    \o Trailer

\* 2 x 2, global table of two entries, and a Graphic Control Extension in the
\* GIF89a layout: block size 4, packed flags 9 (disposal 2, transparency
\* set), delay 5, transparent index 1.
StreamGce89 ==
  Header(2, 2, 128, 0) \o TableS
    \o GCE(4, 9, 5, 0, 1) \o ImageDescriptor(0, 0, 2, 2, 0) \o ImageData
    \o Trailer

UnitStreams ==
  <<StreamGlobalOnly, StreamLateLct, StreamLctFirstColor, StreamLongDelay,
    StreamGce89>>

\* The allocations of a load: all succeed, or one of them fails.
MemOutcomes ==
  {AllOK} \cup {[AllOK EXCEPT ![k] = FALSE] : k \in {"data", "gct", "fb", "pf"}}

\* Canvas sizes, positions (one past the canvas included), colors and the
\* byte the canvas is filled with before a pixel is drawn.
UnitSizes == {<<2, 2>>, <<3, 1>>, <<8, 2>>}
UnitColors == {<<0, 0, 0>>, <<255, 255, 255>>, <<200, 100, 50>>, <<127, 128, 129>>}
UnitFills == {0, 255}

\* The five bytes parseFrame reads after the label 0xF9: packed, delay low,
\* delay high, transparent index, and one more.
UnitBlocks ==
  {<<p, d[1], d[2], 1, 0>> :
     p \in {0, 9},
     d \in {<<0, 0>>, <<1, 0>>, <<2, 0>>, <<3, 0>>, <<153, 25>>, <<154, 25>>,
            <<255, 255>>}}

\* An object with a canvas of the given format and size, every byte fill.
CanvasOf(f, w, h, fill) ==
  [NewImpl EXCEPT
     !.pixelFormat = f, !.canvasWidth = w, !.canvasHeight = h,
     !.frameBuffer = [alloc |-> TRUE,
                      bytes |-> [i \in 1..(w * h * (CASE f \in {"RGB565_LE", "RGB565_BE"} -> 2
                                                      [] f = "RGB888" -> 3
                                                      [] f = "ARGB8888" -> 4
                                                      [] OTHER -> 1)) |-> fill]]]

\* The function pointers and the user data the callbacks are registered with.
UnitCallbacks == {1}
UnitUserData == {1, 2}

UnitNone ==
  [op |-> "none", before |-> NULL, x |-> 0, y |-> 0, color |-> <<0, 0, 0>>,
   block |-> << >>, stream |-> 0, mem |-> AllOK, calls |-> 0,
   frameData |-> 0, pixelData |-> 0]

\* A new object with the registrations of I.
Registered(I) ==
  [NewImpl EXCEPT !.frameCallback = I.frameCallback,
                  !.pixelCallback = I.pixelCallback,
                  !.callbackData = I.callbackData]

\* setFrameCallback and setPixelCallback on a new, loaded or playing object.
UnitSetFrameCallback(callback, userData) ==
  /\ hist.op \in {"none", "loadFromMemory", "nextFrame"}
  /\ Step("setFrameCallback", "", setFrameCallback(impl, callback, userData),
          [hist EXCEPT !.frameData = userData])

UnitSetPixelCallback(callback, userData) ==
  /\ hist.op \in {"none", "loadFromMemory", "nextFrame"}
  /\ Step("setPixelCallback", "", setPixelCallback(impl, callback, userData),
          [hist EXCEPT !.pixelData = userData])

\* A private method applied while no stream is loaded: I is the object after
\* it.
UnitApplied(op, I, h) ==
  /\ ~crashed
  /\ ~impl.data.alloc
  /\ impl' = I
  /\ lastOp' = op
  /\ lastRet' = ""
  /\ hist' = h
  /\ crashed' = FALSE

\* drawPixel on a canvas, and the graphics control branch of parseFrame on a
\* new object.
UnitDrawPixel(canvas, x, y, c) ==
  UnitApplied("drawPixel", drawPixel(canvas, x, y, c[1], c[2], c[3]),
              [UnitNone EXCEPT !.op = "drawPixel", !.before = canvas.frameBuffer,
                               !.x = x, !.y = y, !.color = c])

UnitGraphicControl(block) ==
  UnitApplied("parseGraphicControl", parseGraphicControl(NewImpl, block),
              [UnitNone EXCEPT !.op = "parseGraphicControl", !.block = block])

\* The frames fillTestPattern is applied to: x, y, width, height.
UnitRects == {<<0, 0, 2, 2>>, <<1, 0, 2, 1>>, <<1, 1, 1, 1>>}
UnitIndices == {0, 1}

\* canvas with a local color table of four entries, a registered per-pixel
\* callback, and a parsed frame rect with its transparency.
FrameOn(canvas, rect, transparent, index) ==
  [canvas EXCEPT !.localColorTable = [alloc |-> TRUE, bytes |-> TableL],
                 !.localColorTableSize = 4,
                 !.frameX = rect[1], !.frameY = rect[2],
                 !.frameWidth = rect[3], !.frameHeight = rect[4],
                 !.hasTransparency = transparent,
                 !.transparentIndex = index,
                 !.pixelCallback = 1, !.callbackData = 1]

\* fillTestPattern on such a frame.
UnitFillTestPattern(frame, ub) ==
  UnitApplied("fillTestPattern", fillTestPattern(frame, ub).impl,
              [UnitNone EXCEPT !.op = "fillTestPattern",
                               !.before = frame.frameBuffer])

\* loadFromMemory on a new object that has the registrations made so far,
\* with the allocations turning out as mem.
UnitLoaded(I, m, mem) ==
  Step("loadFromMemory", I.lastError, I,
       [UnitNone EXCEPT !.op = "loadFromMemory", !.stream = m, !.mem = mem,
                        !.frameData = hist.frameData,
                        !.pixelData = hist.pixelData])

UnitLoad(m, mem) ==
  UnitLoaded(loadFromMemory(Registered(impl), UnitStreams[m], mem), m, mem)

\* nextFrame after such a load.
UnitPlayed(r) ==
  /\ ~crashed
  /\ hist.op \in {"loadFromMemory", "nextFrame"}
  /\ hist.calls < MaxCalls
  /\ impl' = r.impl
  /\ lastOp' = "nextFrame"
  /\ lastRet' = r.ret
  /\ crashed' = r.trap
  /\ hist' = [hist EXCEPT !.op = "nextFrame", !.calls = @ + 1]

\* invoked starts empty: it holds the calls this nextFrame makes.
UnitNextFrame(ub) ==
  UnitPlayed(nextFrame([impl EXCEPT !.invoked = << >>], AllOK, ub))

UnitInit ==
  /\ impl = NewImpl
  /\ lastOp = "new"
  /\ lastRet = ""
  /\ crashed = FALSE
  /\ hist = UnitNone

UnitNext ==
  \/ \E f \in PixelFormat, sz \in UnitSizes, fill \in UnitFills, c \in UnitColors :
       \E x \in 0..sz[1], y \in 0..sz[2] :
         UnitDrawPixel(CanvasOf(f, sz[1], sz[2], fill), x, y, c)
  \/ \E block \in UnitBlocks : UnitGraphicControl(block)
  \/ \E f \in PixelFormat, sz \in UnitSizes, fill \in UnitFills, rect \in UnitRects,
          transparent \in BOOLEAN, index \in UnitIndices,
          ub \in {u \in UBOutcomes : u.divzero = "trap"} :
       UnitFillTestPattern(FrameOn(CanvasOf(f, sz[1], sz[2], fill), rect,
                                   transparent, index), ub)
  \/ \E m \in 1..Len(UnitStreams), mem \in MemOutcomes : UnitLoad(m, mem)
  \/ \E ub \in UBOutcomes : UnitNextFrame(ub)
  \/ \E callback \in UnitCallbacks, userData \in UnitUserData :
       UnitSetFrameCallback(callback, userData)
  \/ \E callback \in UnitCallbacks, userData \in UnitUserData :
       UnitSetPixelCallback(callback, userData)

SpecUnit == UnitInit /\ [][UnitNext]_vars

\* The position at which the block-by-block reading of GifImages stops.
RECURSIVE GifEnd(_, _)
GifEnd(bytes, pos) ==
  IF pos + 10 <= Len(bytes) /\ bytes[pos + 1] = 44 THEN
    GifEnd(bytes, SubBlocksEnd(bytes, pos + 11 + TableBytes(bytes[pos + 10])))
  ELSE IF pos + 2 <= Len(bytes) /\ bytes[pos + 1] = 33 THEN
    GifEnd(bytes, SubBlocksEnd(bytes, pos + 2))
  ELSE pos

\* A header, blocks, and the Trailer as the last byte.
WellFormed(bytes) ==
  /\ Len(bytes) >= 14
  /\ StartsWithSignature(bytes)
  /\ GifEnd(bytes, 13 + TableBytes(bytes[11])) = Len(bytes) - 1
  /\ bytes[Len(bytes)] = 59

\* The pixel (r, g, b) in a byte-per-pixel format.
ExpectedPixel(f, r, g, b) ==
  CASE f = "RGB565_LE" ->
         <<((r \div 8) * 2048 + (g \div 4) * 32 + (b \div 8)) % 256,
           ((r \div 8) * 2048 + (g \div 4) * 32 + (b \div 8)) \div 256>>
    [] f = "RGB565_BE" ->
         <<((r \div 8) * 2048 + (g \div 4) * 32 + (b \div 8)) \div 256,
           ((r \div 8) * 2048 + (g \div 4) * 32 + (b \div 8)) % 256>>
    [] f = "RGB888" -> <<r, g, b>>
    [] f = "ARGB8888" -> <<255, r, g, b>>
    [] OTHER -> <<(77 * r + 150 * g + 29 * b) \div 256>>

\* before with the bytes px stored from byte offset off on.
WithPixel(before, off, px) ==
  [i \in 1..Len(before) |->
     IF i > off /\ i <= off + Len(px) THEN px[i - off] ELSE before[i]]

\* C14: in each byte-per-pixel format, drawing (r, g, b) at an in-canvas
\* (x, y) stores the pixel's bytes at offset (y * canvasWidth + x) * bpp and
\* changes no other byte: RGB565 as ((r&0xF8)<<8)|((g&0xFC)<<3)|(b>>3), low
\* byte first for LE, high byte first for BE; RGB888 as r, g, b; ARGB8888 as
\* 0xFF, r, g, b; 8-bit grayscale as (77r + 150g + 29b) >> 8.
C14_BytePixelStored ==
  (lastOp = "drawPixel" /\ impl.pixelFormat # "MONOCHROME_1BIT"
     /\ hist.x < impl.canvasWidth /\ hist.y < impl.canvasHeight)
  => impl.frameBuffer.bytes =
       WithPixel(hist.before.bytes,
                 (hist.y * impl.canvasWidth + hist.x)
                   * Len(ExpectedPixel(impl.pixelFormat, 0, 0, 0)),
                 ExpectedPixel(impl.pixelFormat, hist.color[1], hist.color[2],
                               hist.color[3]))

\* A big-endian RGB565 pixel whose channels lose low bits was drawn into the
\* last pixel of a 2 x 2 canvas that held 0xFF everywhere.
C14_Witness ==
  /\ lastOp = "drawPixel"
  /\ impl.pixelFormat = "RGB565_BE"
  /\ impl.canvasWidth = 2 /\ impl.canvasHeight = 2
  /\ hist.x = 1 /\ hist.y = 1
  /\ hist.color = <<127, 128, 129>>
  /\ hist.before.bytes = [i \in 1..8 |-> 255]
  /\ impl.frameBuffer.bytes = <<255, 255, 255, 255, 255, 255, 124, 16>>

\* C15: in MONOCHROME_1BIT, drawing at an in-canvas pixel of linear index
\* p = y * canvasWidth + x sets bit 7 - p mod 8 of byte p div 8 to 1 when the
\* luminance exceeds 127 and to 0 otherwise, and changes no other bit.
C15_MonoBitStored ==
  (lastOp = "drawPixel" /\ impl.pixelFormat = "MONOCHROME_1BIT"
     /\ hist.x < impl.canvasWidth /\ hist.y < impl.canvasHeight)
  => impl.frameBuffer.bytes =
       [i \in 1..Len(hist.before.bytes) |->
          IF i = ((hist.y * impl.canvasWidth + hist.x) \div 8) + 1
          THEN SetBit(hist.before.bytes[i],
                      7 - ((hist.y * impl.canvasWidth + hist.x) % 8),
                      (77 * hist.color[1] + 150 * hist.color[2]
                         + 29 * hist.color[3]) \div 256 > 127)
          ELSE hist.before.bytes[i]]

\* C16: for every 16-bit delay d in the two delay bytes of a Graphic Control
\* Extension, as the decoder takes them, the frame delay is max(10 * d, 20).
C16_DelayIsTenTimes ==
  lastOp = "parseGraphicControl" =>
    impl.frameDelay =
      IF 10 * LE16(hist.block[2], hist.block[3]) < 20 THEN 20
      ELSE 10 * LE16(hist.block[2], hist.block[3])

\* The outcomes of undefined operations under which no call stops.
NoTrap == [divzero |-> "dividend", oob |-> 0]

\* The number of frames the scan of nextFrame (parseFrame, then decodeFrame)
\* finds from the cursor of I on, added to n.
RECURSIVE LocateFrom(_, _)
LocateDecoded(d, n) == IF ~d.ok THEN n ELSE LocateFrom(d.impl, n + 1)

LocateParsed(p, n) ==
  IF ~p.ok THEN n ELSE LocateDecoded(decodeFrame(p.impl, NoTrap), n)

LocateFrom(I, n) == LocateParsed(parseFrame(I, AllOK), n)

\* C17: after a successful loadFromMemory of a well-formed stream the frame
\* count equals the number of Image Descriptors between header and Trailer,
\* and the number of frames the per-frame scan finds in one pass.
C17_FrameCountIsDescriptorCount ==
  (lastOp = "loadFromMemory" /\ lastRet = SUCCESS /\ hist.mem = AllOK
     /\ WellFormed(impl.data.bytes))
  => /\ impl.totalFrames = Len(ImagesOf(impl.data.bytes))
     /\ impl.totalFrames = LocateFrom(impl, 0)

\* The sum of the frame delays of the nextFrame calls that return SUCCESS
\* from I on, added to sum.
RECURSIVE PassFrom(_, _)
PassPlayed(r, sum) ==
  IF r.ret # SUCCESS THEN sum ELSE PassFrom(r.impl, sum + r.impl.frameDelay)

PassFrom(I, sum) == PassPlayed(nextFrame(I, AllOK, NoTrap), sum)

\* C18: the total duration after a load equals the sum of the frame delays
\* reported after each nextFrame of one pass.
C18_DurationIsSumOfDelays ==
  (lastOp = "loadFromMemory" /\ lastRet = SUCCESS /\ hist.mem = AllOK
     /\ WellFormed(impl.data.bytes))
  => impl.totalDuration = PassFrom([impl EXCEPT !.loop = FALSE], 0)

\* An allocation the load of the stream makes has failed: the copy of the
\* data, the global color table when the header flags one, or a canvas buffer.
FailedAllocation ==
  /\ hist.stream \in 1..Len(UnitStreams)
  /\ \/ ~hist.mem.data
     \/ ~hist.mem.gct /\ Bit(UnitStreams[hist.stream][11], 7) = 1
     \/ ~hist.mem.fb
     \/ ~hist.mem.pf

\* C19: when an allocation made while loading fails, the load returns
\* OUT_OF_MEMORY and records it, and no later nextFrame returns SUCCESS.
C19_AllocationFailureIsReported ==
  /\ (lastOp = "loadFromMemory" /\ FailedAllocation)
     => (lastRet = OUT_OF_MEMORY /\ impl.lastError = OUT_OF_MEMORY)
  /\ (lastOp = "nextFrame" /\ FailedAllocation) => lastRet # SUCCESS

\* C20 as stated: whenever nextFrame returns DECODE_ERROR, both canvas
\* buffers hold the bytes they held before the call and the frame index is
\* unchanged.
C20_DecodeErrorLeavesCanvas ==
  [][(lastOp' = "nextFrame" /\ lastRet' = DECODE_ERROR)
       => /\ impl'.frameBuffer = impl.frameBuffer
          /\ impl'.previousFrame = impl.previousFrame
          /\ impl'.currentFrame = impl.currentFrame]_vars

\* buffer after a call that began with it as before: the same bytes, or, when
\* the call began without it, absent or zero-filled.
KeptOrCreated(before, after) ==
  IF before.alloc THEN after = before ELSE AllZero(after)

\* C20: whenever nextFrame returns DECODE_ERROR the frame index is unchanged,
\* and each canvas buffer that existed before the call holds the bytes it
\* held before it; a canvas buffer that did not exist before the call (the
\* call re-read the header) is absent or zero-filled.
C20_DecodeErrorKeepsExistingCanvas ==
  [][(lastOp' = "nextFrame" /\ lastRet' = DECODE_ERROR)
       => /\ KeptOrCreated(impl.frameBuffer, impl'.frameBuffer)
          /\ KeptOrCreated(impl.previousFrame, impl'.previousFrame)
          /\ impl'.currentFrame = impl.currentFrame]_vars

\* The second nextFrame on a stream whose second frame is cut short has
\* returned DECODE_ERROR with the first frame still on the canvas.
C20_Witness ==
  /\ lastOp = "nextFrame"
  /\ lastRet = DECODE_ERROR
  /\ hist.mode = "mem"
  /\ impl.data.bytes = StreamSecondCut
  /\ impl.currentFrame = 1
  /\ impl.frameBuffer.alloc
  /\ ~AllZero(impl.frameBuffer)

\* The canvas pixels of the frame of I that are not skipped as transparent.
DrawnPixels(I) ==
  {p \in (I.frameX..(I.frameX + I.frameWidth - 1))
          \X (I.frameY..(I.frameY + I.frameHeight - 1)) :
     /\ p[1] < I.canvasWidth /\ p[2] < I.canvasHeight
     /\ ~(I.hasTransparency
            /\ colorIndex(I, p[1] - I.frameX, p[2] - I.frameY) = I.transparentIndex)}

\* The positions in the calls made of the invocations of one kind.
CallsOf(I, kind) == {i \in DOMAIN I.invoked : I.invoked[i].kind = kind}

\* C21: a nextFrame that returns SUCCESS with a full-frame callback
\* registered has invoked it exactly once, with the frame's x, y, width and
\* height; with a per-pixel callback registered it has invoked that one for
\* each drawn pixel.
C21_CallbacksInvoked ==
  (lastOp = "nextFrame" /\ lastRet = SUCCESS)
  => /\ impl.frameCallback # 0
        => \E i \in CallsOf(impl, "frame") :
             /\ CallsOf(impl, "frame") = {i}
             /\ impl.invoked[i].x = impl.frameX
             /\ impl.invoked[i].y = impl.frameY
             /\ impl.invoked[i].width = impl.frameWidth
             /\ impl.invoked[i].height = impl.frameHeight
     /\ (impl.pixelCallback # 0 /\ activeColorTable(impl).alloc
          /\ impl.frameBuffer.alloc)
        => \A p \in DrawnPixels(impl) :
             \E i \in CallsOf(impl, "pixel") :
               impl.invoked[i].x = p[1] /\ impl.invoked[i].y = p[2]

\* C30: each callback is invoked with the user data it was registered with,
\* whatever the order of the two registrations.
C30_CallbackGetsItsUserData ==
  lastOp = "nextFrame"
  => /\ \A i \in CallsOf(impl, "pixel") :
          impl.invoked[i].userData = hist.pixelData
     /\ \A i \in CallsOf(impl, "frame") :
          impl.invoked[i].userData = hist.frameData

\* C22: whenever nextFrame writes into the current canvas, both canvas
\* buffers are allocated, each with the byte size computed from the current
\* canvas width, height and pixel format.
C22_WriteIntoConsistentCanvas ==
  [][(lastOp' = "nextFrame" /\ impl'.frameBuffer.alloc
        /\ impl'.frameBuffer # impl.frameBuffer)
       => /\ impl'.previousFrame.alloc
          /\ Len(impl'.frameBuffer.bytes) = bufferSize(impl')
          /\ Len(impl'.previousFrame.bytes) = bufferSize(impl')]_vars

\* The offset of the first block after the header and the global color table.
FirstBlock(bytes) == 13 + TableBytes(bytes[11])

\* The first block is a Graphic Control Extension in the GIF89a layout and an
\* Image Descriptor follows it.
StartsWithGce89(bytes) ==
  /\ Len(bytes) >= FirstBlock(bytes) + 9
  /\ bytes[FirstBlock(bytes) + 1] = 33
  /\ bytes[FirstBlock(bytes) + 2] = 249
  /\ bytes[FirstBlock(bytes) + 3] = 4
  /\ bytes[FirstBlock(bytes) + 8] = 0
  /\ bytes[FirstBlock(bytes) + 9] = 44

\* C23: for a Graphic Control Extension in the GIF89a layout before a frame,
\* the frame gets its disposal method from bits 2-4 of the packed-flags
\* byte, its transparency flag from bit 0 of that byte, its delay from the
\* LE16 delay field and its transparent index from the transparent-index
\* byte.
C23_GraphicControlLayout ==
  (lastOp = "nextFrame" /\ lastRet = SUCCESS /\ hist.calls = 1
     /\ hist.mem = AllOK /\ StartsWithGce89(impl.data.bytes))
  => /\ impl.disposalMethod = Bits3(impl.data.bytes[FirstBlock(impl.data.bytes) + 4], 2)
     /\ impl.hasTransparency
          = (Bit(impl.data.bytes[FirstBlock(impl.data.bytes) + 4], 0) = 1)
     /\ impl.frameDelay
          = IF 10 * LE16(impl.data.bytes[FirstBlock(impl.data.bytes) + 5],
                         impl.data.bytes[FirstBlock(impl.data.bytes) + 6]) < 20
            THEN 20
            ELSE 10 * LE16(impl.data.bytes[FirstBlock(impl.data.bytes) + 5],
                           impl.data.bytes[FirstBlock(impl.data.bytes) + 6])
     /\ impl.transparentIndex = impl.data.bytes[FirstBlock(impl.data.bytes) + 7]

\* C24: with the frame's transparency flag set, drawing the frame leaves
\* every canvas pixel whose palette index equals the transparent index
\* unchanged and makes no per-pixel callback for it; with the flag clear,
\* every pixel of the frame inside the canvas is drawn, which the registered
\* per-pixel callback observes.
SkippedPixels(I) ==
  {p \in (I.frameX..(I.frameX + I.frameWidth - 1))
           \X (I.frameY..(I.frameY + I.frameHeight - 1)) :
     /\ p[1] < I.canvasWidth /\ p[2] < I.canvasHeight
     /\ colorIndex(I, p[1] - I.frameX, p[2] - I.frameY) = I.transparentIndex}

ReportedPixels(I) ==
  {<<I.invoked[i].x, I.invoked[i].y>> : i \in CallsOf(I, "pixel")}

C24_TransparentPixelsSkipped ==
  lastOp = "fillTestPattern"
  => IF impl.hasTransparency
     THEN \A p \in SkippedPixels(impl) :
            /\ PixelAt(impl, impl.frameBuffer, p[1], p[2])
                 = PixelAt(impl, hist.before, p[1], p[2])
            /\ p \notin ReportedPixels(impl)
     ELSE DrawnPixels(impl) \subseteq ReportedPixels(impl)

\* C25: a reload replaces the byte source.  After loadFromMemory(buf, len),
\* also when a stream was loaded through a reader before, no read goes to a
\* reader any more (readData calls the reader exactly when the reader field
\* is set), and a load that succeeded parsed the header of buf: buf holds a
\* whole header with the GIF signature, and the canvas has its dimensions.
C25_ReloadReplacesSource ==
  (lastOp = "loadFromMemory" \/ hist.mode = "mem")
  => /\ impl.reader = 0
     /\ (lastOp = "loadFromMemory" /\ lastRet = SUCCESS)
        => /\ Len(impl.data.bytes) >= 13
           /\ IsSignature(SubSeq(impl.data.bytes, 1, 13))
           /\ impl.canvasWidth = LE16(impl.data.bytes[7], impl.data.bytes[8])
           /\ impl.canvasHeight = LE16(impl.data.bytes[9], impl.data.bytes[10])

\* C26: after any sequence of begin, load, nextFrame and reset calls every
\* block the decoder allocated is still referenced by one of its five
\* pointers or has been freed: no block is lost, so the live allocations are
\* at most five and do not grow with the resets and loop passes.
C26_NoBlockLost == impl.lost = 0

\* C27: in every reachable state the frame index is at most the frame count;
\* a nextFrame that returns SUCCESS raises the index by exactly one, or sets
\* it to 1 when it restarted the loop, and a nextFrame that fails never
\* raises it.
C27_IndexWithinCount == impl.currentFrame <= impl.totalFrames

C27_IndexStep ==
  [][lastOp' = "nextFrame" /\ ~crashed'
       => IF lastRet' = SUCCESS
          THEN \/ impl'.currentFrame = impl.currentFrame + 1
               \/ (impl.currentFrame >= impl.totalFrames /\ impl.loop
                   /\ impl'.currentFrame = 1)
          ELSE impl'.currentFrame <= impl.currentFrame]_vars

\* ------------------------------------------- truncated and junk streams

\* The object given in-memory buffers that are cut or hold junk: every
\* prefix of every stream, and a header followed by junk bytes.
MaxJunk == 2
JunkBytes == {0, 7, 33, 44, 59, 249}
Junk == UNION {[1..n -> JunkBytes] : n \in 1..MaxJunk}

CutStreams == {5, 6, 7, 9}

CutInputs ==
  UNION {{SubSeq(Streams[m], 1, n) : n \in 1..Len(Streams[m])} : m \in CutStreams}
    \cup {Header(2, 2, 0, 0) \o j : j \in Junk}

\* loadFromMemory(data, len) on the new object.
CutLoad(data) ==
  /\ lastOp = "new"
  /\ Loaded("loadFromMemory", "mem", loadFromMemory(impl, data, AllOK))

CutNext ==
  \/ \E data \in CutInputs : CutLoad(data)
  \/ \E ub \in UBOutcomes : NextFrame(ub)
  \/ Reset

SpecCut == Init /\ [][CutNext]_vars

\* bytes starts with a whole header that parseHeader accepts.
ValidHeader(bytes) ==
  /\ Len(bytes) >= 13
  /\ IsSignature(SubSeq(bytes, 1, 13))
  /\ ~TooWide(LE16(bytes[7], bytes[8]), LE16(bytes[9], bytes[10]))

C29_IndexInsideGlobalTable ==
  (lastOp = "nextFrame" /\ hist.calls = 1 /\ hist.mem = AllOK
     /\ (crashed \/ lastRet = SUCCESS)
     /\ impl.globalColorTable.alloc /\ Bit(impl.imageFlags, 7) = 0
     /\ impl.frameWidth > 0 /\ impl.frameHeight > 0)
  => /\ ~crashed
     /\ \A x \in 0..(impl.frameWidth - 1), y \in 0..(impl.frameHeight - 1) :
          colorIndex(impl, x, y) < impl.globalColorTableSize

====
